---- MODULE Spec2Model ----
(***************************************************************************)
(* A model of the document conversion pipeline (X2TConverter) and of the   *)
(* editor lifecycle queue (queueEditorOperation / createEditorInstance).   *)
(*                                                                         *)
(* JavaScript is single threaded: every action below is one run-to-        *)
(* completion step, from the resumption of an async function (a call, a    *)
(* settled promise, a fired timer) to its next await or its return.        *)
(***************************************************************************)
EXTENDS Integers, Sequences, FiniteSets, TLC

(***************************************************************************)
(* Bounds of the model.                                                    *)
(***************************************************************************)
\* number of createEditorInstance calls
NumOps == 3
\* number of convertDocument calls
NumReqs == 2
\* the engine entry point returns a status in 0..MaxCode
MaxCode == 2
\* how often the engine runtime may signal readiness
MaxSignals == 2
\* longest file name given to sanitizeFileName
MaxLen == 4
\* number of queueEditorOperation calls, for the queue taken by itself
NumSubmits == 4
\* number of handleDocumentOperation calls
NumCalls == 2

(***************************************************************************)
(* Program constants.                                                      *)
(***************************************************************************)
\* the queue-wait timeout of queueEditorOperation, in ms
QueueTimeoutMs == 30000
\* the settling delays of createEditorInstance, in ms
PresentationDelay == 400
ReplaceDelay == 250
FreshDelay == 150
\* the length sanitizeFileName cuts the base name to
SanitizedMaxLen == 200

Ops == 1..NumOps
\* promise 0 is the initial Promise.resolve(); promise i is the
\* operationPromise created by the i-th call
Promises == 0..NumOps
NoSession == 0
FileTypes == {"docx", "pptx"}

VARIABLES
  \* ---- editor lifecycle queue (src/lib/converter.ts 50-212) ----
  editorOperationQueue, \* the module-level tail promise
  operationPromise,     \* state of each promise of the queue
  opPc,                 \* where each createEditorInstance call stands
  waitsOn,              \* the promise each call raced against the timeout
  timedOut,             \* whether the call's queue wait ended by the timeout
  outcome,              \* how the promise returned to each caller settled
  fileType,             \* config.fileType of each call
  hasExistingEditor,    \* the local of that name of each call
  armedDelay,           \* duration of the settling delay the call awaits
  windowEditor,         \* window.editor: the session referenced, or none
  session,              \* lifecycle of the session each call constructed
  destroyedBy,          \* the session a call invoked destroyEditor on
  iframe,               \* sessions mounted in the 'iframe' container
  unsettledAtCtor       \* sessions not torn down when a call constructed

editorVars == <<editorOperationQueue, operationPromise, opPc, waitsOn, timedOut,
                outcome, fileType, hasExistingEditor, armedDelay, windowEditor,
                session, destroyedBy, iframe, unsettledAtCtor>>

VARIABLES
  \* ---- X2TConverter (src/unnamed/part_001 6-400) ----
  x2tModule,            \* this.x2tModule is set (TRUE) or null (FALSE)
  isReady,              \* this.isReady
  initPromise,          \* this.initPromise: the bootstrap it holds, 0 for null
  hasScriptLoaded,      \* this.hasScriptLoaded
  windowModule,         \* window.Module is defined
  onRuntimeInitialized, \* the bootstrap whose callback is registered, or 0
  attempt,              \* each doInitialize run: position, error, timer
  scriptLoads,          \* scriptOnLoad calls made
  runtimeSignals,       \* readiness signals the engine has given
  mkdirRuns,            \* createWorkingDirectories runs
  req,                  \* each convertDocument call
  paramsXml,            \* the call whose descriptor /working/params.xml holds
  windowXLSX            \* window.XLSX is defined

convVars == <<x2tModule, isReady, initPromise, hasScriptLoaded, windowModule,
              onRuntimeInitialized, attempt, scriptLoads, runtimeSignals,
              mkdirRuns, req, paramsXml, windowXLSX>>

VARIABLES
  \* ---- sanitizeFileName applied to a name and to its own result ----
  sanPc, sanInput, sanOnce, sanTwice,
  \* ---- the names convertDocument derives from an uploaded file ----
  mimeExt,              \* getExtensions(file.type)[0], empty for undefined
  names                 \* fileExt, documentType, the paths, result.fileName

sanVars == <<sanPc, sanInput, sanOnce, sanTwice, mimeExt, names>>

VARIABLES
  \* ---- the onAppReady callbacks of the sessions (converter.ts 186-201) ----
  appReady,             \* the application-ready event whose commands are in
                        \* flight: whose session, whether the call had media
  commands              \* the commands its callback sent, not yet delivered

commandVars == <<appReady, commands>>

VARIABLES
  \* ---- readMediaFiles (src/unnamed/part_001 188-225) ----
  mediaPc,              \* where the readMediaFiles call stands
  mediaDir,             \* /working/media: whether readdir lists it, its files
  unreadable,           \* the files FS.readFile throws for
  mediaPromises,        \* the promise mapped from each listed entry
  media,                \* the mapping returned: its keys
  produced              \* the files the engine wrote for the request being read

mediaVars == <<mediaPc, mediaDir, unreadable, mediaPromises, media, produced>>

VARIABLES
  \* ---- queueEditorOperation by itself (src/lib/converter.ts 53-95) ----
  qTail,                \* editorOperationQueue: the promise that is the tail
  qPromise,             \* state of each operationPromise
  qPc,                  \* where each queueEditorOperation call stands
  qWaitsOn,             \* the tail each call read for its Promise.race
  begun                 \* the calls in the order in which `operation()` was called

queueVars == <<qTail, qPromise, qPc, qWaitsOn, begun>>

VARIABLES
  \* ---- handleDocumentOperation (src/lib/converter.ts 25-48) ----
  handler               \* where each handleDocumentOperation call stands

handlerVars == <<handler>>

vars == <<editorVars, commandVars, convVars, sanVars, mediaVars, queueVars,
          handlerVars>>

Pending == [st |-> "pending", err |-> 0]
Resolved == [st |-> "resolved", err |-> 0]
Rejected(e) == [st |-> "rejected", err |-> e]

InitEditor ==
  /\ editorOperationQueue = 0
  /\ operationPromise = [p \in Promises |-> IF p = 0 THEN "resolved" ELSE "none"]
  /\ opPc = [i \in Ops |-> "idle"]
  /\ waitsOn = [i \in Ops |-> 0]
  /\ timedOut = [i \in Ops |-> FALSE]
  /\ outcome = [i \in Ops |-> Pending]
  /\ fileType = [i \in Ops |-> "docx"]
  /\ hasExistingEditor = [i \in Ops |-> FALSE]
  /\ armedDelay = [i \in Ops |-> 0]
  /\ windowEditor = NoSession
  /\ session = [i \in Ops |-> "none"]
  /\ destroyedBy = [i \in Ops |-> NoSession]
  /\ iframe = {}
  /\ unsettledAtCtor = [i \in Ops |-> {}]

isPresentation(ft) == ft = "pptx" \/ ft = "ppt"

settlingDelay(existing, ft) ==
  IF existing /\ isPresentation(ft) THEN PresentationDelay
  ELSE IF existing THEN ReplaceDelay ELSE FreshDelay

\* destroyEditor() invoked on session s: it is live no longer
destroyEditor(s) ==
  [session EXCEPT ![s] = IF @ = "live" THEN "destroyed" ELSE @]

\* a settling delay awaited by call i has elapsed: the session it tore
\* down has had its delay
settled(i, sess) ==
  IF destroyedBy[i] # NoSession /\ sess[destroyedBy[i]] = "destroyed"
  THEN [sess EXCEPT ![destroyedBy[i]] = "settled"]
  ELSE sess

(***************************************************************************)
(* createEditorInstance(config) calls queueEditorOperation, which runs to  *)
(* its first await: it reads the tail promise and races it against a       *)
(* 30000 ms timer.  Calls are numbered in the order they are made.         *)
(***************************************************************************)
createEditorInstanceCalled(i) ==
  /\ opPc[i] = "idle"
  /\ \A j \in Ops : j < i => opPc[j] # "idle"
  /\ \E ft \in FileTypes : fileType' = [fileType EXCEPT ![i] = ft]
  /\ waitsOn' = [waitsOn EXCEPT ![i] = editorOperationQueue]
  /\ opPc' = [opPc EXCEPT ![i] = "waiting"]
  /\ UNCHANGED <<editorOperationQueue, operationPromise, timedOut, outcome,
                 hasExistingEditor, armedDelay, windowEditor, session,
                 destroyedBy, iframe, unsettledAtCtor>>
  /\ UNCHANGED <<commandVars, convVars, sanVars, mediaVars, queueVars>>

\* createEditorInstance called by any caller but handleDocumentOperation
createEditorInstance(i) ==
  /\ createEditorInstanceCalled(i)
  /\ UNCHANGED handlerVars

\* a createEditorInstance without the try/catch around destroyEditor: a
\* throw of destroyEditor ends the operation and rejects the caller
StartOperationUnguarded(i) ==
  /\ editorOperationQueue' = i
  /\ hasExistingEditor' = [hasExistingEditor EXCEPT ![i] = (windowEditor # NoSession)]
  /\ armedDelay' = [armedDelay EXCEPT
                      ![i] = settlingDelay(windowEditor # NoSession, fileType[i])]
  /\ IF windowEditor # NoSession
     THEN /\ session' = destroyEditor(windowEditor)
          /\ destroyedBy' = [destroyedBy EXCEPT ![i] = windowEditor]
          /\ \E throws \in BOOLEAN :
               IF throws
               THEN /\ operationPromise' = [operationPromise EXCEPT ![i] = "rejected"]
                    /\ outcome' = [outcome EXCEPT ![i] = Rejected(i)]
                    /\ opPc' = [opPc EXCEPT ![i] = "failed"]
                    /\ UNCHANGED <<windowEditor, iframe>>
               ELSE /\ operationPromise' = [operationPromise EXCEPT ![i] = "pending"]
                    /\ windowEditor' = windowEditor
                    /\ iframe' = iframe \ {windowEditor}
                    /\ opPc' = [opPc EXCEPT ![i] = "destroyDelay"]
                    /\ UNCHANGED outcome
     ELSE /\ operationPromise' = [operationPromise EXCEPT ![i] = "pending"]
          /\ iframe' = {}
          /\ opPc' = [opPc EXCEPT ![i] = "cleanupDelay"]
          /\ UNCHANGED <<windowEditor, session, destroyedBy, outcome>>
  /\ UNCHANGED <<waitsOn, fileType, unsettledAtCtor>>

(***************************************************************************)
(* The rest of queueEditorOperation after the wait, up to the first await  *)
(* of the operation: a new operationPromise becomes the tail, then the     *)
(* body of createEditorInstance runs until its first setTimeout await.     *)
(***************************************************************************)
StartOperation(i) ==
  /\ operationPromise' = [operationPromise EXCEPT ![i] = "pending"]
  /\ editorOperationQueue' = i
  /\ hasExistingEditor' = [hasExistingEditor EXCEPT ![i] = (windowEditor # NoSession)]
  /\ armedDelay' = [armedDelay EXCEPT
                      ![i] = settlingDelay(windowEditor # NoSession, fileType[i])]
  /\ IF windowEditor # NoSession
     THEN /\ session' = destroyEditor(windowEditor)
          /\ destroyedBy' = [destroyedBy EXCEPT ![i] = windowEditor]
          /\ \E throws \in BOOLEAN :
               IF throws
               THEN \* caught: no destroy delay, reference and container cleared
                    /\ windowEditor' = NoSession
                    /\ iframe' = {}
                    /\ opPc' = [opPc EXCEPT ![i] = "cleanupDelay"]
               ELSE /\ windowEditor' = windowEditor
                    /\ iframe' = iframe \ {windowEditor}
                    /\ opPc' = [opPc EXCEPT ![i] = "destroyDelay"]
     ELSE /\ iframe' = {}
          /\ opPc' = [opPc EXCEPT ![i] = "cleanupDelay"]
          /\ UNCHANGED <<windowEditor, session, destroyedBy>>
  /\ UNCHANGED <<waitsOn, outcome, fileType, unsettledAtCtor>>

\* reactions on one promise run in the order they were registered
FirstWaiter(i) ==
  \A j \in Ops : j < i => ~(opPc[j] = "waiting" /\ waitsOn[j] = waitsOn[i])

\* no promise reaction is pending: timers, which are macrotasks, fire only
\* once the microtask queue is empty
NoReactionPending ==
  \A j \in Ops :
    opPc[j] = "waiting" => operationPromise[waitsOn[j]] = "pending"

\* the race is settled by the tail promise
QueueWaitSettled(i) ==
  /\ opPc[i] = "waiting"
  /\ operationPromise[waitsOn[i]] \in {"resolved", "rejected"}
  /\ FirstWaiter(i)
  /\ UNCHANGED <<commandVars, convVars, sanVars, mediaVars, queueVars, handlerVars>>
  /\ IF operationPromise[waitsOn[i]] = "resolved"
     THEN StartOperation(i) /\ UNCHANGED timedOut
     ELSE \* not the timeout error: re-thrown, the operation never runs
          /\ opPc' = [opPc EXCEPT ![i] = "rejected"]
          /\ outcome' = [outcome EXCEPT ![i] = Rejected(waitsOn[i])]
          /\ UNCHANGED <<editorOperationQueue, operationPromise, waitsOn, timedOut,
                         fileType, hasExistingEditor, armedDelay, windowEditor,
                         session, destroyedBy, iframe, unsettledAtCtor>>

\* a queue whose catch block re-throws the timeout error like any other
QueueWaitTimeoutRethrows(i) ==
  /\ opPc[i] = "waiting"
  /\ operationPromise[waitsOn[i]] = "pending"
  /\ NoReactionPending
  /\ \A j \in Ops : j < i => opPc[j] # "waiting"
  /\ timedOut' = [timedOut EXCEPT ![i] = TRUE]
  /\ opPc' = [opPc EXCEPT ![i] = "rejected"]
  /\ outcome' = [outcome EXCEPT ![i] = Rejected(0)]
  /\ UNCHANGED <<editorOperationQueue, operationPromise, waitsOn, fileType,
                 hasExistingEditor, armedDelay, windowEditor, session,
                 destroyedBy, iframe, unsettledAtCtor>>
  /\ UNCHANGED <<commandVars, convVars, sanVars, mediaVars, queueVars, handlerVars>>

\* the race is settled by the 30000 ms timer: warn and proceed
QueueWaitTimeout(i) ==
  /\ opPc[i] = "waiting"
  /\ operationPromise[waitsOn[i]] = "pending"
  /\ NoReactionPending
  \* timers of one duration fire in the order they were set
  /\ \A j \in Ops : j < i => opPc[j] # "waiting"
  /\ timedOut' = [timedOut EXCEPT ![i] = TRUE]
  /\ StartOperation(i)
  /\ UNCHANGED <<commandVars, convVars, sanVars, mediaVars, queueVars, handlerVars>>

\* the delay after destroyEditor has elapsed: reference and container cleared
DestroyDelayElapsed(i) ==
  /\ opPc[i] = "destroyDelay"
  /\ NoReactionPending
  /\ windowEditor' = NoSession
  /\ iframe' = {}
  /\ session' = settled(i, session)
  /\ armedDelay' = [armedDelay EXCEPT
                      ![i] = settlingDelay(hasExistingEditor[i], fileType[i])]
  /\ opPc' = [opPc EXCEPT ![i] = "cleanupDelay"]
  /\ UNCHANGED <<editorOperationQueue, operationPromise, waitsOn, timedOut,
                 outcome, fileType, hasExistingEditor, destroyedBy,
                 unsettledAtCtor>>
  /\ UNCHANGED <<commandVars, convVars, sanVars, mediaVars, queueVars, handlerVars>>

\* the cleanup delay has elapsed: new DocsAPI.DocEditor(...), which may throw
CleanupDelayElapsed(i) ==
  /\ opPc[i] = "cleanupDelay"
  /\ NoReactionPending
  /\ armedDelay' = [armedDelay EXCEPT ![i] = 0]
  /\ \E throws \in BOOLEAN :
       IF throws
       THEN /\ session' = settled(i, session)
            /\ operationPromise' = [operationPromise EXCEPT ![i] = "rejected"]
            /\ outcome' = [outcome EXCEPT ![i] = Rejected(i)]
            /\ opPc' = [opPc EXCEPT ![i] = "failed"]
            /\ UNCHANGED <<windowEditor, iframe, unsettledAtCtor>>
       ELSE /\ unsettledAtCtor' =
                 [unsettledAtCtor EXCEPT
                    ![i] = {s \in Ops : settled(i, session)[s] \in {"live", "destroyed"}}]
            /\ session' = [settled(i, session) EXCEPT ![i] = "live"]
            /\ windowEditor' = i
            /\ iframe' = iframe \cup {i}
            /\ operationPromise' = [operationPromise EXCEPT ![i] = "resolved"]
            /\ outcome' = [outcome EXCEPT ![i] = Resolved]
            /\ opPc' = [opPc EXCEPT ![i] = "done"]
  /\ UNCHANGED <<editorOperationQueue, waitsOn, timedOut, fileType,
                 hasExistingEditor, destroyedBy>>
  /\ UNCHANGED <<commandVars, convVars, sanVars, mediaVars, queueVars, handlerVars>>

NextEditor ==
  \E i \in Ops :
    \/ createEditorInstance(i)
    \/ QueueWaitSettled(i)
    \/ QueueWaitTimeout(i)
    \/ DestroyDelayElapsed(i)
    \/ CleanupDelayElapsed(i)

\* window.editor?.sendCommand(...): the call made, if window.editor is set
sendCommand(command) ==
  IF windowEditor = NoSession THEN <<>>
  ELSE << [command |-> command, to |-> windowEditor] >>

\* no commands in flight
NoEvent == [session |-> NoSession, mediaUrls |-> FALSE]

\* an onAppReady that opens the document before it sets the image URLs
onAppReadyDocumentFirst(s) ==
  /\ session[s] = "live"
  /\ s \in iframe
  /\ appReady = NoEvent
  /\ \E mediaUrls \in BOOLEAN :
       /\ appReady' = [session |-> s, mediaUrls |-> mediaUrls]
       /\ commands' = sendCommand("asc_openDocument")
                       \o (IF mediaUrls THEN sendCommand("asc_setImageUrls") ELSE <<>>)
  /\ UNCHANGED <<editorVars, convVars, sanVars, mediaVars, queueVars, handlerVars>>

(***************************************************************************)
(* The session constructed by call s reports that its application is       *)
(* ready, while it is mounted and has not been destroyed: the onAppReady   *)
(* callback of that call runs.  mediaUrls is whether the config of the     *)
(* call carried media.                                                     *)
(***************************************************************************)
onAppReady(s) ==
  /\ session[s] = "live"
  /\ s \in iframe
  /\ appReady = NoEvent
  /\ \E mediaUrls \in BOOLEAN :
       /\ appReady' = [session |-> s, mediaUrls |-> mediaUrls]
       /\ commands' = (IF mediaUrls THEN sendCommand("asc_setImageUrls") ELSE <<>>)
                       \o sendCommand("asc_openDocument")
  /\ UNCHANGED <<editorVars, convVars, sanVars, mediaVars, queueVars, handlerVars>>

\* the commands sent by a callback are delivered to the editor frame
CommandsDelivered ==
  /\ appReady # NoEvent
  /\ appReady' = NoEvent
  /\ commands' = <<>>
  /\ UNCHANGED <<editorVars, convVars, sanVars, mediaVars, queueVars, handlerVars>>

\* the lifecycle queue together with the events of the sessions.  Delivery
\* changes nothing the queue reads, so it is taken before the next step of
\* the queue and before the next event.
NextSession ==
  \/ appReady = NoEvent /\ NextEditor
  \/ \E s \in Ops : onAppReady(s)
  \/ CommandsDelivered

(***************************************************************************)
(* handleDocumentOperation(options).  The conversion it awaits is taken as *)
(* a promise that resolves or rejects; the editor operation it submits is  *)
(* the createEditorInstance call of the queue above.  Calls are numbered   *)
(* in the order in which they are made.                                    *)
(***************************************************************************)
Handlers == 1..NumCalls
NoOp == 0

\* handleDocumentOperation runs to its first await: getExtensions and
\* getDocumentType, which may throw; `if (!file) throw`; convertDocument(file)
handleDocumentOperation(h) ==
  /\ handler[h].pc = "idle"
  /\ \A g \in Handlers : g < h => handler[g].pc # "idle"
  /\ \E how \in {"typeDetectionThrows", "invalidFileObject", "converts"} :
       handler' = [handler EXCEPT
                     ![h].pc = IF how = "converts" THEN "converting" ELSE "rejected",
                     ![h].err = IF how = "converts" THEN "none" ELSE how]
  /\ UNCHANGED <<editorVars, commandVars, convVars, sanVars, mediaVars, queueVars>>

\* a handleDocumentOperation whose catch block covers the conversion only
\* and falls through: the editor is opened although the conversion failed
ConversionSettledFallsThrough(h) ==
  /\ handler[h].pc = "converting"
  /\ \E i \in Ops, ok \in BOOLEAN :
       /\ createEditorInstanceCalled(i)
       /\ handler' = [handler EXCEPT
                        ![h].pc = "opening", ![h].op = i,
                        ![h].err = IF ok THEN "none" ELSE "conversionFailed"]

\* `await convertDocument(file)` rejects: the catch block alerts and rethrows
ConversionRejected(h) ==
  /\ handler[h].pc = "converting"
  /\ handler' = [handler EXCEPT ![h].pc = "rejected", ![h].err = "conversionFailed"]
  /\ UNCHANGED <<editorVars, commandVars, convVars, sanVars, mediaVars, queueVars>>

\* `await convertDocument(file)` resolves: createEditorInstance is called
\* with the result, and awaited
ConversionResolved(h) ==
  /\ handler[h].pc = "converting"
  /\ \E i \in Ops :
       /\ createEditorInstanceCalled(i)
       /\ handler' = [handler EXCEPT ![h].pc = "opening", ![h].op = i]

\* `await createEditorInstance(...)` settles: the call returns, or the catch
\* block alerts and rethrows
EditorSettled(h) ==
  /\ handler[h].pc = "opening"
  /\ outcome[handler[h].op] # Pending
  /\ handler' = [handler EXCEPT
                   ![h].pc = IF outcome[handler[h].op] = Resolved
                             THEN "returned" ELSE "rejected",
                   ![h].err = IF outcome[handler[h].op] = Resolved
                              THEN @ ELSE "editorFailed"]
  /\ UNCHANGED <<editorVars, commandVars, convVars, sanVars, mediaVars, queueVars>>

\* the application as handleDocumentOperation drives it: every editor
\* operation is one that some handleDocumentOperation call submitted
NextHandler ==
  \/ \E h \in Handlers :
       \/ handleDocumentOperation(h)
       \/ ConversionRejected(h)
       \/ ConversionResolved(h)
       \/ EditorSettled(h)
  \/ \E i \in Ops :
       \/ QueueWaitSettled(i)
       \/ QueueWaitTimeout(i)
       \/ DestroyDelayElapsed(i)
       \/ CleanupDelayElapsed(i)

(***************************************************************************)
(* queueEditorOperation taken by itself, for any operation: a call reads   *)
(* the tail, races it against a 30000 ms timer, then installs its own      *)
(* operationPromise as the tail and calls operation().  Calls are numbered *)
(* in the order in which they are made.                                    *)
(***************************************************************************)
Submits == 1..NumSubmits

InitQueue ==
  /\ qTail = 0
  /\ qPromise = [p \in 0..NumSubmits |-> IF p = 0 THEN "resolved" ELSE "none"]
  /\ qPc = [i \in Submits |-> "idle"]
  /\ qWaitsOn = [i \in Submits |-> 0]
  /\ begun = <<>>

\* queueEditorOperation(operation) is called and runs to its first await
queueEditorOperation(i) ==
  /\ qPc[i] = "idle"
  /\ \A j \in Submits : j < i => qPc[j] # "idle"
  /\ qPc' = [qPc EXCEPT ![i] = "waiting"]
  /\ qWaitsOn' = [qWaitsOn EXCEPT ![i] = qTail]
  /\ UNCHANGED <<qTail, qPromise, begun>>
  /\ UNCHANGED <<editorVars, commandVars, convVars, sanVars, mediaVars, handlerVars>>

\* the lines after the try block: a new operationPromise becomes the tail and
\* operation() is called
BeginOperation(i) ==
  /\ qPromise' = [qPromise EXCEPT ![i] = "pending"]
  /\ qTail' = i
  /\ qPc' = [qPc EXCEPT ![i] = "running"]
  /\ begun' = Append(begun, i)
  /\ UNCHANGED qWaitsOn

\* reactions of one promise run in the order in which they were registered
FirstInLine(i) ==
  \A j \in Submits : j < i => ~(qPc[j] = "waiting" /\ qWaitsOn[j] = qWaitsOn[i])

\* no promise reaction is pending: a timer fires, and an operation goes on,
\* only once the microtask queue is empty
NoRacePending ==
  \A j \in Submits : qPc[j] = "waiting" => qPromise[qWaitsOn[j]] = "pending"

\* the race is settled by the tail the call read
RaceSettled(i) ==
  /\ qPc[i] = "waiting"
  /\ qPromise[qWaitsOn[i]] \in {"resolved", "rejected"}
  /\ FirstInLine(i)
  /\ IF qPromise[qWaitsOn[i]] = "resolved"
     THEN BeginOperation(i)
     ELSE \* not the timeout error: re-thrown, operation() is never called
          /\ qPc' = [qPc EXCEPT ![i] = "rejected"]
          /\ UNCHANGED <<qTail, qPromise, qWaitsOn, begun>>
  /\ UNCHANGED <<editorVars, commandVars, convVars, sanVars, mediaVars, handlerVars>>

\* the race is settled by the 30000 ms timer: warn and proceed.  Timers of
\* one duration fire in the order in which they were set.
RaceTimedOut(i) ==
  /\ qPc[i] = "waiting"
  /\ qPromise[qWaitsOn[i]] = "pending"
  /\ NoRacePending
  /\ \A j \in Submits : j < i => qPc[j] # "waiting"
  /\ BeginOperation(i)
  /\ UNCHANGED <<editorVars, commandVars, convVars, sanVars, mediaVars, handlerVars>>

\* `await operation()` settles: resolveOperation or rejectOperation
OperationSettled(i) ==
  /\ qPc[i] = "running"
  /\ NoRacePending
  /\ \E ok \in BOOLEAN :
       /\ qPromise' = [qPromise EXCEPT ![i] = IF ok THEN "resolved" ELSE "rejected"]
       /\ qPc' = [qPc EXCEPT ![i] = IF ok THEN "done" ELSE "failed"]
  /\ UNCHANGED <<qTail, qWaitsOn, begun>>
  /\ UNCHANGED <<editorVars, commandVars, convVars, sanVars, mediaVars, handlerVars>>

NextQueue ==
  \E i \in Submits :
    \/ queueEditorOperation(i)
    \/ RaceSettled(i)
    \/ RaceTimedOut(i)
    \/ OperationSettled(i)

(***************************************************************************)
(* X2TConverter: engine bootstrap and document conversion.                 *)
(***************************************************************************)
Reqs == 1..NumReqs
\* a bootstrap (doInitialize run) is named after the call that started it
Attempts == Reqs
EngineCodes == 0..MaxCode
\* detected extensions: of a word document, of a CSV file, of no known type
Exts == {"docx", "csv", "xyz"}

\* the extension-to-type mapping of document-utils
DOCUMENT_TYPE_MAP(e) ==
  CASE e = "docx" -> "word"
    [] e = "csv" -> "cell"
    [] e = "xlsx" -> "cell"
    [] e = "pptx" -> "slide"
    [] OTHER -> "none"

NoErr == [kind |-> "none", code |-> 0, wrap |-> <<>>]
Err(kind, code) == [kind |-> kind, code |-> code, wrap |-> <<>>]
\* new Error(`<prefix>: ${error.message}`)
Wrap(prefix, e) == [e EXCEPT !.wrap = <<prefix>> \o @]

InitConv ==
  /\ x2tModule = FALSE
  /\ isReady = FALSE
  /\ initPromise = 0
  /\ hasScriptLoaded = FALSE
  /\ windowModule = FALSE
  /\ onRuntimeInitialized = 0
  /\ attempt = [a \in Attempts |-> [pc |-> "unused", err |-> NoErr, timer |-> "none"]]
  /\ scriptLoads = 0
  /\ runtimeSignals = 0
  /\ mkdirRuns = 0
  /\ req = [r \in Reqs |->
             [pc |-> "idle", ext |-> "docx", att |-> 0, joined |-> {},
              stale |-> FALSE,
              init |-> "none", err |-> NoErr, wrote |-> FALSE, ccalls |-> 0,
              ranWith |-> 0,
              code |-> 0, readbackFailed |-> FALSE, readOut |-> FALSE,
              readMedia |-> FALSE, usedXlsx |-> FALSE, empty |-> FALSE,
              xlsxFailed |-> FALSE]]
  /\ paramsXml = 0
  /\ windowXLSX = FALSE

AttemptPending(a) == attempt[a].pc \in {"loading", "loaded", "awaitReady"}
AttemptSettled(a) == attempt[a].pc \in {"resolved", "rejected"}

\* initialize() without its `if (this.initPromise) return this.initPromise`
startsBootstrapAlways == ~(isReady /\ x2tModule)

\* initialize(): whether the call reaches `this.initPromise = this.doInitialize()`
startsBootstrap == ~(isReady /\ x2tModule) /\ initPromise = 0

\* an initialize() that looks neither at the cached handle nor at
\* initPromise: every call starts a bootstrap
initializeAfresh(r) == r

\* initialize(): the promise call r gets; 0 stands for the cached handle
initialize(r) ==
  IF isReady /\ x2tModule THEN 0
  ELSE IF startsBootstrap THEN r ELSE initPromise

(***************************************************************************)
(* convertDocument(file) runs to its first await, `await this.initialize()`.*)
(* A new bootstrap runs doInitialize and loadScript to their first await:  *)
(* scriptOnLoad is called unless the script has loaded already.            *)
(***************************************************************************)
convertDocument(r) ==
  /\ req[r].pc = "idle"
  /\ \A q \in Reqs : q < r => req[q].pc # "idle"
  /\ \E e \in Exts :
       req' = [req EXCEPT ![r].pc = "awaitInit", ![r].ext = e,
                          ![r].att = initialize(r),
                          ![r].joined = {a \in Attempts : AttemptPending(a)},
                          ![r].stale = /\ initialize(r) \notin {0, r}
                                       /\ attempt[initialize(r)].pc = "rejected"]
  /\ IF initialize(r) = r
     THEN /\ initPromise' = r
          /\ attempt' = [attempt EXCEPT
                           ![r].pc = IF hasScriptLoaded THEN "loaded" ELSE "loading"]
          /\ scriptLoads' = IF hasScriptLoaded THEN scriptLoads ELSE scriptLoads + 1
     ELSE UNCHANGED <<initPromise, attempt, scriptLoads>>
  /\ UNCHANGED <<x2tModule, isReady, hasScriptLoaded, windowModule,
                 onRuntimeInitialized, runtimeSignals, mkdirRuns, paramsXml,
                 windowXLSX>>
  /\ UNCHANGED <<editorVars, commandVars, sanVars, mediaVars, queueVars, handlerVars>>

\* doInitialize after `await this.loadScript()`: the promise executor
Executor(a, module) ==
  IF ~module
  THEN \* reject('X2T module not found after script loading')
       /\ attempt' = [attempt EXCEPT ![a].pc = "rejected",
                                     ![a].err = Err("ModuleNotFound", 0)]
       /\ UNCHANGED onRuntimeInitialized
  ELSE \* setTimeout(..., INIT_TIMEOUT); x2t.onRuntimeInitialized = ...
       /\ attempt' = [attempt EXCEPT ![a].pc = "awaitReady", ![a].timer = "armed"]
       /\ onRuntimeInitialized' = a

\* scriptOnLoad resolved: the script ran, and may or may not have defined
\* window.Module
ScriptLoaded(a) ==
  /\ attempt[a].pc = "loading"
  /\ hasScriptLoaded' = TRUE
  /\ \E defines \in BOOLEAN :
       /\ windowModule' = (windowModule \/ defines)
       /\ Executor(a, windowModule \/ defines)
  /\ UNCHANGED <<x2tModule, isReady, initPromise, scriptLoads, runtimeSignals,
                 mkdirRuns, req, paramsXml, windowXLSX>>
  /\ UNCHANGED <<editorVars, commandVars, sanVars, mediaVars, queueVars, handlerVars>>

\* scriptOnLoad rejected: loadScript throws, doInitialize's catch block runs
ScriptFailed(a) ==
  /\ attempt[a].pc = "loading"
  /\ attempt' = [attempt EXCEPT ![a].pc = "rejected",
                                ![a].err = Err("ScriptLoadFailed", 0)]
  /\ initPromise' = 0
  /\ UNCHANGED <<x2tModule, isReady, hasScriptLoaded, windowModule,
                 onRuntimeInitialized, scriptLoads, runtimeSignals, mkdirRuns,
                 req, paramsXml, windowXLSX>>
  /\ UNCHANGED <<editorVars, commandVars, sanVars, mediaVars, queueVars, handlerVars>>

\* loadScript had returned at once (hasScriptLoaded): doInitialize resumes
LoadSkipped(a) ==
  /\ attempt[a].pc = "loaded"
  /\ Executor(a, windowModule)
  /\ UNCHANGED <<x2tModule, isReady, initPromise, hasScriptLoaded, windowModule,
                 scriptLoads, runtimeSignals, mkdirRuns, req, paramsXml,
                 windowXLSX>>
  /\ UNCHANGED <<editorVars, commandVars, sanVars, mediaVars, queueVars, handlerVars>>

\* how often the engine script has run: the scriptOnLoad calls that are
\* neither outstanding nor failed
scriptRuns ==
  scriptLoads - Cardinality({a \in Attempts : attempt[a].pc = "loading"})
              - Cardinality({a \in Attempts : attempt[a].err.kind = "ScriptLoadFailed"})

\* the engine signals readiness, once for a run of its script: the
\* registered onRuntimeInitialized runs
RuntimeInitialized ==
  /\ windowModule
  /\ runtimeSignals < MaxSignals
  /\ runtimeSignals < scriptRuns
  /\ runtimeSignals' = runtimeSignals + 1
  /\ IF onRuntimeInitialized = 0
     THEN UNCHANGED <<attempt, mkdirRuns, x2tModule, isReady>>
     ELSE LET a == onRuntimeInitialized IN
          /\ attempt' = [attempt EXCEPT
                           ![a].timer = IF @ = "armed" THEN "cleared" ELSE @,
                           ![a].pc = IF @ = "awaitReady" THEN "resolved" ELSE @]
          /\ mkdirRuns' = mkdirRuns + 1
          /\ x2tModule' = TRUE
          /\ isReady' = TRUE
  /\ UNCHANGED <<initPromise, hasScriptLoaded, windowModule, onRuntimeInitialized,
                 scriptLoads, req, paramsXml, windowXLSX>>
  /\ UNCHANGED <<editorVars, commandVars, sanVars, mediaVars, queueVars, handlerVars>>

\* the INIT_TIMEOUT timer of a bootstrap fires
InitTimeout(a) ==
  /\ attempt[a].timer = "armed"
  /\ attempt' = [attempt EXCEPT
                   ![a].timer = "fired",
                   ![a].pc = IF ~isReady /\ @ = "awaitReady" THEN "rejected" ELSE @,
                   ![a].err = IF ~isReady /\ attempt[a].pc = "awaitReady"
                              THEN Err("InitTimeout", 0) ELSE @]
  /\ UNCHANGED <<x2tModule, isReady, initPromise, hasScriptLoaded, windowModule,
                 onRuntimeInitialized, scriptLoads, runtimeSignals, mkdirRuns,
                 req, paramsXml, windowXLSX>>
  /\ UNCHANGED <<editorVars, commandVars, sanVars, mediaVars, queueVars, handlerVars>>

\* a destroy() that also resets hasScriptLoaded
destroyForgetsScript ==
  /\ x2tModule' = FALSE
  /\ isReady' = FALSE
  /\ initPromise' = 0
  /\ hasScriptLoaded' = FALSE
  /\ UNCHANGED <<windowModule, onRuntimeInitialized, attempt,
                 scriptLoads, runtimeSignals, mkdirRuns, req, paramsXml,
                 windowXLSX>>
  /\ UNCHANGED <<editorVars, commandVars, sanVars, mediaVars, queueVars, handlerVars>>

\* destroy()
destroy ==
  /\ x2tModule' = FALSE
  /\ isReady' = FALSE
  /\ initPromise' = 0
  /\ UNCHANGED <<hasScriptLoaded, windowModule, onRuntimeInitialized, attempt,
                 scriptLoads, runtimeSignals, mkdirRuns, req, paramsXml,
                 windowXLSX>>
  /\ UNCHANGED <<editorVars, commandVars, sanVars, mediaVars, queueVars, handlerVars>>

\* getDocumentType(extension): the error thrown, if any
getDocumentType(e) ==
  IF DOCUMENT_TYPE_MAP(e) = "none" THEN Err("UnsupportedFormat", 0) ELSE NoErr

\* `await this.initialize()` settles; then the extension is looked up, and
\* file.arrayBuffer() is awaited.  Both failures are thrown outside the try.
AfterInitialize(r) ==
  /\ req[r].pc = "awaitInit"
  /\ IF req[r].att = 0 THEN TRUE ELSE AttemptSettled(req[r].att)
  /\ IF req[r].att # 0 /\ attempt[req[r].att].pc = "rejected"
     THEN req' = [req EXCEPT ![r].pc = "rejected", ![r].init = "rejected",
                             ![r].err = attempt[req[r].att].err]
     ELSE IF getDocumentType(req[r].ext) # NoErr
     THEN req' = [req EXCEPT ![r].pc = "rejected", ![r].init = "handle",
                             ![r].err = getDocumentType(req[r].ext)]
     ELSE req' = [req EXCEPT ![r].pc = "awaitBuffer", ![r].init = "handle"]
  /\ UNCHANGED <<x2tModule, isReady, initPromise, hasScriptLoaded, windowModule,
                 onRuntimeInitialized, attempt, scriptLoads, runtimeSignals,
                 mkdirRuns, paramsXml, windowXLSX>>
  /\ UNCHANGED <<editorVars, commandVars, sanVars, mediaVars, queueVars, handlerVars>>

\* executeConversion whose catch of the descriptor read-back lets it escape
executeConversionMasked(code, readbackFails) ==
  IF code = 0 THEN NoErr
  ELSE IF readbackFails THEN Err("FsError", 0)
  ELSE Err("ConversionFailed", code)

\* executeConversion(paramsPath), given the status main1 returned and whether
\* reading the descriptor back throws: the error thrown, if any
executeConversion(code, readbackFails) ==
  IF code = 0 THEN NoErr ELSE Err("ConversionFailed", code)

\* the catch blocks a throw passes on its way out of convertDocument
Rethrown(csv, e) ==
  IF csv
  THEN Wrap("Document conversion failed", Wrap("Failed to convert CSV file", e))
  ELSE Wrap("Document conversion failed", e)

\* a convertDocument that invokes the engine a second time when it fails
RunEngineRetries(r, csv) ==
  IF ~x2tModule
  THEN /\ req' = [req EXCEPT ![r].pc = "rejected",
                             ![r].err = Rethrown(csv, Err("TypeError", 0))]
       /\ UNCHANGED paramsXml
  ELSE /\ paramsXml' = r
       /\ \E code \in EngineCodes, readbackFails \in BOOLEAN, outputMissing \in BOOLEAN :
            LET thrown == executeConversion(code, readbackFails) IN
            IF thrown # NoErr
            THEN req' = [req EXCEPT ![r].pc = "rejected", ![r].wrote = TRUE,
                                    ![r].ccalls = @ + 2, ![r].code = code,
                                    ![r].ranWith = paramsXml',
                                    ![r].readbackFailed = readbackFails,
                                    ![r].err = Rethrown(csv, thrown)]
            ELSE IF outputMissing
            THEN req' = [req EXCEPT ![r].pc = "rejected", ![r].wrote = TRUE,
                                    ![r].ccalls = @ + 1, ![r].code = code,
                                    ![r].ranWith = paramsXml',
                                    ![r].err = Rethrown(csv, Err("FsError", 0))]
            ELSE req' = [req EXCEPT ![r].pc = "awaitMedia", ![r].wrote = TRUE,
                                    ![r].ccalls = @ + 1, ![r].code = code,
                                    ![r].ranWith = paramsXml',
                                    ![r].readOut = TRUE, ![r].readMedia = TRUE]

\* a convertDocument that awaits between writing its files and invoking the
\* engine: the first step writes the input file and the descriptor, the next
\* invokes the engine on whatever /working/params.xml holds by then
RunEngineSuspends(r, csv) ==
  IF ~x2tModule
  THEN /\ req' = [req EXCEPT ![r].pc = "rejected",
                             ![r].err = Rethrown(csv, Err("TypeError", 0))]
       /\ UNCHANGED paramsXml
  ELSE IF ~req[r].wrote
  THEN /\ paramsXml' = r
       /\ req' = [req EXCEPT ![r].wrote = TRUE]
  ELSE /\ UNCHANGED paramsXml
       /\ \E code \in EngineCodes, readbackFails \in BOOLEAN, outputMissing \in BOOLEAN :
            LET thrown == executeConversion(code, readbackFails) IN
            IF thrown # NoErr
            THEN req' = [req EXCEPT ![r].pc = "rejected",
                                    ![r].ccalls = @ + 1, ![r].code = code,
                                    ![r].ranWith = paramsXml,
                                    ![r].readbackFailed = readbackFails,
                                    ![r].err = Rethrown(csv, thrown)]
            ELSE IF outputMissing
            THEN req' = [req EXCEPT ![r].pc = "rejected",
                                    ![r].ccalls = @ + 1, ![r].code = code,
                                    ![r].ranWith = paramsXml,
                                    ![r].err = Rethrown(csv, Err("FsError", 0))]
            ELSE req' = [req EXCEPT ![r].pc = "awaitMedia",
                                    ![r].ccalls = @ + 1, ![r].code = code,
                                    ![r].ranWith = paramsXml,
                                    ![r].readOut = TRUE, ![r].readMedia = TRUE]

(***************************************************************************)
(* The synchronous run from the write of the input file to the start of    *)
(* readMediaFiles: writeFile(inputPath), writeFile('/working/params.xml'), *)
(* executeConversion, readFile(outputPath), readdir and readFile of media. *)
(***************************************************************************)
RunEngine(r, csv) ==
  IF ~x2tModule
  THEN \* this.x2tModule is null: FS of null throws a TypeError
       /\ req' = [req EXCEPT ![r].pc = "rejected",
                             ![r].err = Rethrown(csv, Err("TypeError", 0))]
       /\ UNCHANGED paramsXml
  ELSE /\ paramsXml' = r
       /\ \E code \in EngineCodes, readbackFails \in BOOLEAN, outputMissing \in BOOLEAN :
            LET thrown == executeConversion(code, readbackFails) IN
            IF thrown # NoErr
            THEN req' = [req EXCEPT ![r].pc = "rejected", ![r].wrote = TRUE,
                                    ![r].ccalls = @ + 1, ![r].code = code,
                                    ![r].ranWith = paramsXml',
                                    ![r].readbackFailed = readbackFails,
                                    ![r].err = Rethrown(csv, thrown)]
            ELSE IF outputMissing
            THEN req' = [req EXCEPT ![r].pc = "rejected", ![r].wrote = TRUE,
                                    ![r].ccalls = @ + 1, ![r].code = code,
                                    ![r].ranWith = paramsXml',
                                    ![r].err = Rethrown(csv, Err("FsError", 0))]
            ELSE req' = [req EXCEPT ![r].pc = "awaitMedia", ![r].wrote = TRUE,
                                    ![r].ccalls = @ + 1, ![r].code = code,
                                    ![r].ranWith = paramsXml',
                                    ![r].readOut = TRUE, ![r].readMedia = TRUE]

\* convertDocument without its `if (data.length === 0)` check: an empty CSV
\* file is handed to convertCsvToXlsx like any other
AfterArrayBufferUnchecked(r) ==
  /\ req[r].pc = "awaitBuffer"
  /\ IF req[r].ext = "csv"
     THEN /\ \E empty \in BOOLEAN :
               req' = [req EXCEPT ![r].pc = "awaitXlsxLibrary",
                                  ![r].empty = empty, ![r].usedXlsx = TRUE]
          /\ UNCHANGED paramsXml
     ELSE RunEngine(r, FALSE)
  /\ UNCHANGED <<x2tModule, isReady, initPromise, hasScriptLoaded, windowModule,
                 onRuntimeInitialized, attempt, scriptLoads, runtimeSignals,
                 mkdirRuns, windowXLSX>>
  /\ UNCHANGED <<editorVars, commandVars, sanVars, mediaVars, queueVars, handlerVars>>

\* file.arrayBuffer() resolved: the empty-CSV check and the call of
\* convertCsvToXlsx for a CSV file, the conversion itself for any other;
\* `empty` is whether data.length === 0
AfterArrayBuffer(r) ==
  /\ req[r].pc = "awaitBuffer"
  /\ IF req[r].ext = "csv"
     THEN /\ \E empty \in BOOLEAN :
               IF empty
               THEN req' = [req EXCEPT ![r].pc = "rejected", ![r].empty = TRUE,
                                       ![r].err = Rethrown(FALSE, Err("CsvEmpty", 0))]
               ELSE req' = [req EXCEPT ![r].pc = "awaitXlsxLibrary",
                                       ![r].usedXlsx = TRUE]
          /\ UNCHANGED paramsXml
     ELSE RunEngine(r, FALSE)
  /\ UNCHANGED <<x2tModule, isReady, initPromise, hasScriptLoaded, windowModule,
                 onRuntimeInitialized, attempt, scriptLoads, runtimeSignals,
                 mkdirRuns, windowXLSX>>
  /\ UNCHANGED <<editorVars, commandVars, sanVars, mediaVars, queueVars, handlerVars>>

\* a convertCsvToXlsx that, when the fallback fails, hands the CSV bytes to
\* the engine as they are
XlsxLibrarySettledFallsBack(r) ==
  /\ req[r].pc = "awaitXlsxLibrary"
  /\ \E how \in {"loadFails", "transcodeFails", "ok"} :
       /\ how = "loadFails" => ~windowXLSX
       /\ windowXLSX' = (windowXLSX \/ how # "loadFails")
       /\ req' = [req EXCEPT ![r].pc = "awaitXlsxBuffer",
                              ![r].xlsxFailed = (how # "ok")]
  /\ UNCHANGED <<x2tModule, isReady, initPromise, hasScriptLoaded, windowModule,
                 onRuntimeInitialized, attempt, scriptLoads, runtimeSignals,
                 mkdirRuns, paramsXml>>
  /\ UNCHANGED <<editorVars, commandVars, sanVars, mediaVars, queueVars, handlerVars>>

\* loadXlsxLibrary settled; then decoding, XLSX.read and XLSX.write run and
\* may throw; on success xlsxFile.arrayBuffer() is awaited
XlsxLibrarySettled(r) ==
  /\ req[r].pc = "awaitXlsxLibrary"
  /\ \E how \in {"loadFails", "transcodeFails", "ok"} :
       /\ how = "loadFails" => ~windowXLSX
       /\ windowXLSX' = (windowXLSX \/ how # "loadFails")
       /\ IF how = "ok"
          THEN req' = [req EXCEPT ![r].pc = "awaitXlsxBuffer"]
          ELSE req' = [req EXCEPT
                         ![r].pc = "rejected", ![r].xlsxFailed = TRUE,
                         ![r].err = Rethrown(TRUE, Wrap("Failed to convert CSV to XLSX",
                                                        Err("XlsxFailure", 0)))]
  /\ UNCHANGED <<x2tModule, isReady, initPromise, hasScriptLoaded, windowModule,
                 onRuntimeInitialized, attempt, scriptLoads, runtimeSignals,
                 mkdirRuns, paramsXml>>
  /\ UNCHANGED <<editorVars, commandVars, sanVars, mediaVars, queueVars, handlerVars>>

\* xlsxFile.arrayBuffer() resolved: the conversion of the intermediate XLSX
AfterXlsxBuffer(r) ==
  /\ req[r].pc = "awaitXlsxBuffer"
  /\ RunEngine(r, TRUE)
  /\ UNCHANGED <<x2tModule, isReady, initPromise, hasScriptLoaded, windowModule,
                 onRuntimeInitialized, attempt, scriptLoads, runtimeSignals,
                 mkdirRuns, windowXLSX>>
  /\ UNCHANGED <<editorVars, commandVars, sanVars, mediaVars, queueVars, handlerVars>>

\* readMediaFiles resolved: convertDocument returns the ConversionResult
MediaSettled(r) ==
  /\ req[r].pc = "awaitMedia"
  /\ req' = [req EXCEPT ![r].pc = "resolved"]
  /\ UNCHANGED <<x2tModule, isReady, initPromise, hasScriptLoaded, windowModule,
                 onRuntimeInitialized, attempt, scriptLoads, runtimeSignals,
                 mkdirRuns, paramsXml, windowXLSX>>
  /\ UNCHANGED <<editorVars, commandVars, sanVars, mediaVars, queueVars, handlerVars>>

\* the converter as converter.ts drives it: its singleton is private, and
\* only initialize and convertDocument are called on it
NextConv ==
  \/ \E r \in Reqs :
       \/ convertDocument(r)
       \/ AfterInitialize(r)
       \/ AfterArrayBuffer(r)
       \/ XlsxLibrarySettled(r)
       \/ AfterXlsxBuffer(r)
       \/ MediaSettled(r)
  \/ \E a \in Attempts :
       \/ ScriptLoaded(a)
       \/ ScriptFailed(a)
       \/ InitTimeout(a)
  \/ RuntimeInitialized

\* the class X2TConverter with every public method, destroy() included; only
\* after a destroy() can a bootstrap find the script loaded already
NextConvApi ==
  \/ NextConv
  \/ destroy
  \/ \E a \in Attempts : LoadSkipped(a)

\* the bootstrap protocol by itself: the initialize() calls that
\* convertDocument makes, the script load, the executor, the engine's signal,
\* the INIT_TIMEOUT timer and destroy(), up to the point where each call has
\* its initialize() settled
NextBootstrap ==
  \/ \E r \in Reqs : convertDocument(r)
  \/ \E a \in Attempts : ScriptLoaded(a)
  \/ \E a \in Attempts : ScriptFailed(a)
  \/ \E a \in Attempts : LoadSkipped(a)
  \/ RuntimeInitialized
  \/ \E a \in Attempts : InitTimeout(a)
  \/ destroy
  \/ \E r \in Reqs : AfterInitialize(r)

(***************************************************************************)
(* X2TConverter.sanitizeFileName.  A string is a sequence of characters.   *)
(***************************************************************************)
\* the characters file names are drawn from: a letter, the dot, one of the
\* illegalChars, one of the unsafeChars, a blank, and a control character
\* that is white space as well
Alphabet == {"a", ".", "/", "&", " ", "\t"}
IllegalChars == {"/", "?", "<", ">", "\\", ":", "*", "|", "\""}
ControlChars == {"\t", "\n", "\r", "\f"}
UnsafeChars == {"&", "'", "%", "!", "\"", "{", "}", "[", "]"}
WhiteSpace == {" ", "\t", "\n", "\r", "\f"}

RECURSIVE StringsUpTo(_)
StringsUpTo(n) ==
  IF n = 0 THEN {<<>>}
  ELSE LET shorter == StringsUpTo(n - 1) IN
       shorter \cup {Append(s, c) : s \in {t \in shorter : Len(t) = n - 1},
                                    c \in Alphabet}

FileNames == StringsUpTo(MaxLen)

\* String.prototype.replace(/[set]/g, '')
strip(s, set) == SelectSeq(s, LAMBDA c : c \notin set)

RECURSIVE trimStart(_)
trimStart(s) ==
  IF s # <<>> /\ Head(s) \in WhiteSpace THEN trimStart(Tail(s)) ELSE s

RECURSIVE trimEnd(_)
trimEnd(s) ==
  IF s # <<>> /\ s[Len(s)] \in WhiteSpace
  THEN trimEnd(SubSeq(s, 1, Len(s) - 1)) ELSE s

\* String.prototype.trim
trim(s) == trimEnd(trimStart(s))

\* String.prototype.slice(0, n)
slice(s, n) == IF Len(s) <= n THEN s ELSE SubSeq(s, 1, n)

\* the index of the last dot of s, 0 if it has none
lastDot(s) ==
  LET dots == {i \in 1..Len(s) : s[i] = "."} IN
  IF dots = {} THEN 0 ELSE CHOOSE i \in dots : \A j \in dots : j <= i

\* input.split('.') followed by parts.pop(): the last part ...
popped(s) ==
  IF lastDot(s) = 0 THEN s ELSE SubSeq(s, lastDot(s) + 1, Len(s))

\* ... and parts.join('.') of the parts that remain
joined(s) ==
  IF lastDot(s) = 0 THEN <<>> ELSE SubSeq(s, 1, lastDot(s) - 1)

\* String.prototype.replace(/^\.+$/, '')
reservedPattern(s) ==
  IF s # <<>> /\ \A i \in 1..Len(s) : s[i] = "." THEN <<>> ELSE s

sanitizeFileName(input) ==
  IF trim(input) = <<>> THEN <<"f", "i", "l", "e", ".", "b", "i", "n">>
  ELSE LET ext == IF popped(input) = <<>> THEN <<"b", "i", "n">> ELSE popped(input)
           replaced == strip(reservedPattern(strip(strip(joined(input), IllegalChars),
                                                   ControlChars)),
                             UnsafeChars)
           sanitized == IF trim(replaced) = <<>> THEN <<"f", "i", "l", "e">>
                        ELSE trim(replaced)
       IN slice(sanitized, SanitizedMaxLen) \o <<".">> \o ext

(***************************************************************************)
(* The names convertDocument works with: the detected extension, the       *)
(* document type, the input and output paths, and result.fileName.         *)
(***************************************************************************)
\* a string of characters as a TLA+ string
RECURSIVE Str(_)
Str(s) == IF s = <<>> THEN "" ELSE Head(s) \o Str(Tail(s))

lowerChar(c) ==
  CASE c = "A" -> "a" [] c = "C" -> "c" [] c = "D" -> "d" [] c = "S" -> "s"
    [] c = "T" -> "t" [] c = "V" -> "v" [] OTHER -> c

\* String.prototype.toLowerCase
toLowerCase(s) == [i \in 1..Len(s) |-> lowerChar(s[i])]

endsWith(s, suffix) ==
  Len(s) >= Len(suffix) /\ SubSeq(s, Len(s) - Len(suffix) + 1, Len(s)) = suffix

DotCsv == <<".", "c", "s", "v">>
DotXlsx == <<".", "x", "l", "s", "x">>
DotBin == <<".", "b", "i", "n">>
WorkingDir == <<"/", "w", "o", "r", "k", "i", "n", "g", "/">>

\* the extensions getExtensions may give for file.type; empty stands for
\* a type it knows no extension of
MimeExts == {<<>>, <<"d", "o", "c", "x">>, <<"c", "s", "v">>, <<"x", "y", "z">>}

\* names as users give them, next to every short name over Alphabet
UploadNames ==
  { <<"R", "e", "p", "o", "r", "t", ".", "d", "o", "c", "x">>,
    <<"d", "a", "t", "a", ".", "c", "s", "v">>,
    <<"D", "A", "T", "A", ".", "C", "S", "V">>,
    <<"a", "&", "a", ".", "c", "s", "v">>,
    <<"n", "o", "t", "e", "s", ".", "t", "x", "t">> }

\* getExtensions(file?.type)[0] || fileName.split('.').pop() || ''
fileExt(fileName, mime) == IF mime # <<>> THEN mime ELSE popped(fileName)

\* DOCUMENT_TYPE_MAP[extension.toLowerCase()], "none" when it has no entry
documentTypeOf(extension) == DOCUMENT_TYPE_MAP(Str(toLowerCase(extension)))

\* fileName.replace(/\.csv$/i, '.xlsx'): the name of the intermediate file
xlsxFileName(fileName) ==
  IF endsWith(toLowerCase(fileName), DotCsv)
  THEN SubSeq(fileName, 1, Len(fileName) - Len(DotCsv)) \o DotXlsx
  ELSE fileName

isCsv(extension) == toLowerCase(extension) = <<"c", "s", "v">>

\* the name of the file written to the virtual filesystem
sanitizedName(fileName, extension) ==
  IF isCsv(extension) THEN sanitizeFileName(xlsxFileName(fileName))
  ELSE sanitizeFileName(fileName)

\* a convertDocument that returns the name it wrote the input under
resultFileNameWritten(fileName, extension) == sanitizedName(fileName, extension)

\* the fileName of the ConversionResult
resultFileName(fileName, extension) ==
  IF isCsv(extension) THEN sanitizeFileName(fileName)
  ELSE sanitizedName(fileName, extension)

NoNames == [fileExt |-> <<>>, type |-> "none", inputPath |-> <<>>,
            outputPath |-> <<>>, fileName |-> <<>>]

InitSan ==
  /\ sanPc = "input"
  /\ sanInput = <<>>
  /\ sanOnce = <<>>
  /\ sanTwice = <<>>
  /\ mimeExt = <<>>
  /\ names = NoNames

\* sanitizeFileName is applied to a file name ...
Sanitize ==
  /\ sanPc = "input"
  /\ sanOnce' = sanitizeFileName(sanInput)
  /\ sanPc' = "once"
  /\ UNCHANGED <<sanInput, sanTwice, mimeExt, names>>
  /\ UNCHANGED <<editorVars, commandVars, convVars, mediaVars, queueVars, handlerVars>>

\* ... and then to its own result
SanitizeAgain ==
  /\ sanPc = "once"
  /\ sanTwice' = sanitizeFileName(sanOnce)
  /\ sanPc' = "twice"
  /\ UNCHANGED <<sanInput, sanOnce, mimeExt, names>>
  /\ UNCHANGED <<editorVars, commandVars, convVars, mediaVars, queueVars, handlerVars>>

\* convertDocument on a file named sanInput whose type has the extension
\* mimeExt: the names it uses when the conversion succeeds; getDocumentType
\* throws for an extension without a document type
ConversionNames ==
  /\ sanPc = "input"
  /\ LET ext == fileExt(sanInput, mimeExt)
         inputPath == WorkingDir \o sanitizedName(sanInput, ext)
     IN names' = IF documentTypeOf(ext) = "none"
                 THEN [NoNames EXCEPT !.fileExt = ext]
                 ELSE [fileExt |-> ext,
                       type |-> documentTypeOf(ext),
                       inputPath |-> inputPath,
                       outputPath |-> inputPath \o DotBin,
                       fileName |-> resultFileName(sanInput, ext)]
  /\ sanPc' = "named"
  /\ UNCHANGED <<sanInput, sanOnce, sanTwice, mimeExt>>
  /\ UNCHANGED <<editorVars, commandVars, convVars, mediaVars, queueVars, handlerVars>>

NextSan == Sanitize \/ SanitizeAgain \/ ConversionNames

(***************************************************************************)
(* X2TConverter.readMediaFiles.  convertDocument calls it right after      *)
(* this.x2tModule.FS.readFile(outputPath), so this.x2tModule is set.       *)
(***************************************************************************)
MediaFiles == {"image1.png", "image2.png", "image3.png"}
PseudoEntries == {".", ".."}

\* /working/media holding the given files, and the directory that is
\* missing or cannot be listed: FS.readdir throws for it
Directory(files) == [listable |-> TRUE, files |-> files]
Unlistable == [listable |-> FALSE, files |-> {}]

\* FS.readdir('/working/media/') of a directory that can be listed
readdir(dir) == PseudoEntries \cup dir.files

\* files.filter((file) => file !== '.' && file !== '..')
listed(dir) == {file \in readdir(dir) : file # "." /\ file # ".."}

\* `media/${file}`
mediaKey(file) == "media/" \o file

InitMedia ==
  /\ mediaPc = "idle"
  /\ mediaDir = Directory({})
  /\ unreadable = {}
  /\ mediaPromises = [file \in MediaFiles |-> "none"]
  /\ media = {}
  /\ produced = {}

\* a readMediaFiles whose map callback lets a failing FS.readFile escape:
\* Promise.all rejects and the outer catch returns the mapping still empty
readMediaFilesUnguarded ==
  /\ mediaPc = "idle"
  /\ IF ~mediaDir.listable
     THEN mediaPc' = "returned" /\ UNCHANGED mediaPromises
     ELSE IF listed(mediaDir) \cap unreadable # {}
     THEN mediaPc' = "returned" /\ UNCHANGED mediaPromises
     ELSE /\ mediaPromises' = [file \in MediaFiles |->
                                 IF file \in listed(mediaDir) THEN "awaitUrl"
                                 ELSE "none"]
          /\ mediaPc' = "awaitAll"
  /\ UNCHANGED <<mediaDir, unreadable, media, produced>>
  /\ UNCHANGED <<editorVars, commandVars, convVars, sanVars, queueVars, handlerVars>>

\* readMediaFiles up to `await Promise.all(mediaPromises)`: readdir, which
\* throws for a missing directory, then the synchronous part of every map
\* callback: FS.readFile, which may throw, and the call of createObjectURL
readMediaFiles ==
  /\ mediaPc = "idle"
  /\ IF ~mediaDir.listable
     THEN \* caught: 'Failed to read media directory'; return media
          mediaPc' = "returned" /\ UNCHANGED mediaPromises
     ELSE /\ mediaPromises' = [file \in MediaFiles |->
                                 IF file \notin listed(mediaDir) THEN "none"
                                 ELSE IF file \in unreadable THEN "null"
                                 ELSE "awaitUrl"]
          /\ mediaPc' = "awaitAll"
  /\ UNCHANGED <<mediaDir, unreadable, media, produced>>
  /\ UNCHANGED <<editorVars, commandVars, convVars, sanVars, queueVars, handlerVars>>

\* createObjectURL(blob) settles: the entry resolves with its key and URL,
\* or, the rejection caught in the map callback, with null
ObjectUrlSettled(file) ==
  /\ mediaPc = "awaitAll"
  /\ mediaPromises[file] = "awaitUrl"
  /\ \E ok \in BOOLEAN :
       mediaPromises' = [mediaPromises EXCEPT ![file] = IF ok THEN "url" ELSE "null"]
  /\ UNCHANGED <<mediaPc, mediaDir, unreadable, media, produced>>
  /\ UNCHANGED <<editorVars, commandVars, convVars, sanVars, queueVars, handlerVars>>

\* Promise.all resolved: every result that is not null is entered, and the
\* mapping is returned
MediaReturned ==
  /\ mediaPc = "awaitAll"
  /\ \A file \in MediaFiles : mediaPromises[file] # "awaitUrl"
  /\ media' = {mediaKey(file) : file \in {f \in MediaFiles : mediaPromises[f] = "url"}}
  /\ mediaPc' = "returned"
  /\ UNCHANGED <<mediaDir, unreadable, mediaPromises, produced>>
  /\ UNCHANGED <<editorVars, commandVars, convVars, sanVars, queueVars, handlerVars>>

\* the engine runs for the next request, after the mapping of the one before
\* was returned: it writes the media of the document it converts into
\* /working/media, over any file of the same name.  Nothing removes a file.
EngineWroteMedia(files) ==
  /\ mediaPc = "returned"
  /\ mediaDir.listable
  /\ mediaDir' = Directory(mediaDir.files \cup files)
  /\ produced' = files
  /\ mediaPc' = "idle"
  /\ mediaPromises' = [file \in MediaFiles |-> "none"]
  /\ media' = {}
  /\ UNCHANGED unreadable
  /\ UNCHANGED <<editorVars, commandVars, convVars, sanVars, queueVars, handlerVars>>

NextMedia ==
  \/ readMediaFiles
  \/ \E file \in MediaFiles : ObjectUrlSettled(file)
  \/ MediaReturned
  \/ \E files \in SUBSET MediaFiles : EngineWroteMedia(files)

\* no onAppReady callback has run
InitCommands ==
  /\ appReady = NoEvent
  /\ commands = <<>>

\* no handleDocumentOperation call has been made
InitHandler ==
  handler = [h \in Handlers |-> [pc |-> "idle", op |-> NoOp, err |-> "none"]]

Init ==
  /\ InitEditor /\ InitCommands /\ InitConv /\ InitSan /\ InitMedia
  /\ InitQueue /\ InitHandler

\* readMediaFiles on every state of /working/media: missing, empty, or
\* holding some files, some of which cannot be read
InitMediaDirs ==
  /\ InitEditor /\ InitCommands /\ InitConv /\ InitSan /\ InitQueue /\ InitHandler
  /\ mediaPc = "idle"
  /\ mediaDir \in {Unlistable} \cup {Directory(files) : files \in SUBSET MediaFiles}
  /\ unreadable \in SUBSET mediaDir.files
  /\ mediaPromises = [file \in MediaFiles |-> "none"]
  /\ media = {}
  /\ produced = mediaDir.files

SpecMedia == InitMediaDirs /\ [][NextMedia]_vars

\* sanitizeFileName on every file name of up to MaxLen characters
InitFileNames ==
  /\ InitEditor /\ InitCommands /\ InitConv /\ InitMedia /\ InitQueue /\ InitHandler
  /\ sanPc = "input" /\ sanInput \in FileNames \cup UploadNames
  /\ sanOnce = <<>> /\ sanTwice = <<>>
  /\ mimeExt \in MimeExts /\ names = NoNames

SpecSan == InitFileNames /\ [][NextSan]_vars

SpecEditor == Init /\ [][NextEditor]_vars

SpecSession == Init /\ [][NextSession]_vars

SpecConv == Init /\ [][NextConv]_vars

SpecConvApi == Init /\ [][NextConvApi]_vars

SpecHandler == Init /\ [][NextHandler]_vars

SpecQueue == Init /\ [][NextQueue]_vars

SpecBootstrap == Init /\ [][NextBootstrap]_vars

\* a script load that is outstanding settles, a doInitialize whose loadScript
\* returned at once resumes, an armed INIT_TIMEOUT timer fires, and a call
\* whose initialize() promise has settled resumes.  Nothing is assumed of the
\* engine, which may never signal readiness, nor of the callers.
FairSpecBootstrap ==
  /\ SpecBootstrap
  /\ \A a \in Attempts :
       /\ WF_vars(ScriptLoaded(a) \/ ScriptFailed(a))
       /\ WF_vars(LoadSkipped(a))
       /\ WF_vars(InitTimeout(a))
  /\ \A r \in Reqs : WF_vars(AfterInitialize(r))

\* the race of some waiting call is settled, by the tail or by the timer
QueueWaitEnds == \E i \in Ops : QueueWaitSettled(i) \/ QueueWaitTimeout(i)

\* timers fire and promise reactions run: while some queue wait can end, one
\* does.  Nothing is assumed of the operations, which may never complete.
FairSpecEditor == SpecEditor /\ WF_vars(QueueWaitEnds)

(***************************************************************************)
(* Properties of the editor lifecycle queue.                               *)
(***************************************************************************)
Executing(i) == opPc[i] \in {"destroyDelay", "cleanupDelay"}
Started(i) == opPc[i] \in {"destroyDelay", "cleanupDelay", "done", "failed"}
Finished(i) == opPc[i] \in {"done", "failed", "rejected"}
NoQueueTimeout == \A i \in Ops : ~timedOut[i]
LiveSessions == {s \in Ops : session[s] = "live"}

\* C1: as long as no queue-wait timeout has fired, at most one operation is
\* executing, and an operation that has started finds every operation
\* submitted before it finished.
C1_StrictlySerial ==
  NoQueueTimeout =>
    /\ Cardinality({i \in Ops : Executing(i)}) <= 1
    /\ \A i \in Ops : Started(i) => \A j \in Ops : j < i => Finished(j)

\* C2: an operation's failure reaches its own caller only: every call is
\* executed, and a caller's promise rejects only with the error of its own
\* operation.
C2_FailureIsolated ==
  \A i \in Ops :
    /\ opPc[i] # "rejected"
    /\ outcome[i].st = "rejected" => outcome[i].err = i

\* C3: at most one session is live at any time, and no session was
\* constructed while an earlier one had not been destroyed and settled.
\* Stated for the runs in which no queue wait timed out, where the queue
\* has no reason to let two calls overlap.
C3_OneLiveSession ==
  NoQueueTimeout =>
    /\ Cardinality(LiveSessions) <= 1
    /\ \A i \in Ops : unsettledAtCtor[i] = {}

\* C7: a queue wait always ends; when it ends by the timeout the operation
\* starts executing; and an operation that was executed settles its caller
\* with its own result, also when a later operation overtook it.
C7_TimeoutProceeds ==
  /\ \A i \in Ops : (opPc[i] = "waiting") ~> (opPc[i] # "waiting")
  /\ [][\A i \in Ops : (~timedOut[i] /\ timedOut'[i]) => Executing(i)']_vars
  /\ [](\A i \in Ops :
         /\ opPc[i] = "done" => outcome[i] = Resolved
         /\ opPc[i] = "failed" => outcome[i] = Rejected(i)
         /\ Executing(i) => outcome[i] = Pending)

\* a call that waited on a stuck operation proceeded on the timeout, and the
\* stuck operation later completed with its own result
C7_Witness ==
  \E i, j \in Ops :
    /\ j < i /\ waitsOn[i] = j /\ timedOut[i] /\ Started(i)
    /\ opPc[j] = "done" /\ outcome[j] = Resolved

\* the tier the claim gives a call that tore down session old, or none
ClaimedDelay(i, old) ==
  IF old = NoSession THEN FreshDelay
  ELSE IF isPresentation(fileType[old]) THEN PresentationDelay
  ELSE IF ~isPresentation(fileType[i]) THEN ReplaceDelay
  ELSE armedDelay[i]

\* C14: the settling delay a call awaits is 150 ms when there was no
\* session, 400 ms when the session it replaces is a presentation, whatever
\* the new document is, and 250 ms when neither the replaced session nor the
\* new document is a presentation.
C14_DelayTiers ==
  \A i \in Ops : Executing(i) => armedDelay[i] = ClaimedDelay(i, destroyedBy[i])

Positions(command) ==
  {k \in 1..Len(commands) : commands[k].command = command}

\* C15: the callback of an application-ready event sends the document
\* payload exactly once, and when the call carried media it sends the image
\* URLs, and sends them before the document payload.
C15_MediaBeforeDocument ==
  appReady # NoEvent =>
    /\ Cardinality(Positions("asc_openDocument")) = 1
    /\ appReady.mediaUrls =>
         /\ Positions("asc_setImageUrls") # {}
         /\ \A m \in Positions("asc_setImageUrls"),
               d \in Positions("asc_openDocument") : m < d

\* the session that replaced another one was sent its image URLs and then
\* its document
C15_Witness ==
  \E s \in Ops :
    /\ destroyedBy[s] # NoSession
    /\ appReady = [session |-> s, mediaUrls |-> TRUE]
    /\ commands = << [command |-> "asc_setImageUrls", to |-> s],
                     [command |-> "asc_openDocument", to |-> s] >>

\* destroyEditor threw in call i: the call awaits its cleanup delay while the
\* session it tore down has had no delay
TeardownFailed(i) ==
  /\ opPc[i] = "cleanupDelay"
  /\ destroyedBy[i] # NoSession
  /\ session[destroyedBy[i]] = "destroyed"

\* call i found a session and leaves its queue wait without entering the
\* destroy delay: destroyEditor threw
TeardownFails(i) ==
  /\ opPc[i] = "waiting" /\ opPc'[i] \notin {"waiting", "rejected", "destroyDelay"}
  /\ windowEditor # NoSession

\* C16: when destroyEditor throws, the call goes on: the step that caught the
\* throw clears window.editor and the container and arms the cleanup delay;
\* the caller's promise stays pending until the constructor has run, and a
\* call fails only by its own constructor.
C16_TeardownFailureSwallowed ==
  /\ [][\A i \in Ops :
          TeardownFails(i) =>
            /\ opPc'[i] = "cleanupDelay"
            /\ windowEditor' = NoSession /\ iframe' = {}
            /\ armedDelay'[i] = settlingDelay(TRUE, fileType[i])
            /\ outcome'[i] = Pending]_vars
  /\ [](\A i \in Ops :
         /\ TeardownFailed(i) =>
              /\ outcome[i] = Pending
              /\ windowEditor # destroyedBy[i] /\ destroyedBy[i] \notin iframe
         /\ opPc[i] = "failed" => armedDelay[i] = 0)

\* destroyEditor threw and was swallowed: reference and container are clear
C16_Witness ==
  \E i \in Ops :
    /\ TeardownFailed(i)
    /\ windowEditor = NoSession /\ iframe = {} /\ outcome[i] = Pending

\* the failures of a handleDocumentOperation call before its conversion
\* has resolved
EarlyFailures == {"typeDetectionThrows", "invalidFileObject", "conversionFailed"}
FailedEarly(h) == handler[h].pc = "rejected" /\ handler[h].err \in EarlyFailures

\* C21: a handleDocumentOperation call whose type detection throws, whose
\* file is missing or whose conversion rejects has called createEditorInstance
\* at no time and is rejected with that failure, and the step in which it
\* fails leaves the queue, window.editor and every session as they were;
\* every editor operation was submitted by exactly one call, whose
\* conversion had resolved.
C21_EditorOnlyAfterConversion ==
  /\ [](/\ \A h \in Handlers :
             /\ FailedEarly(h) => handler[h].op = NoOp
             /\ handler[h].op # NoOp =>
                  /\ handler[h].err \in {"none", "editorFailed"}
                  /\ opPc[handler[h].op] # "idle"
        /\ \A i \in Ops :
             opPc[i] # "idle" =>
               Cardinality({h \in Handlers : handler[h].op = i}) = 1)
  /\ [][\A h \in Handlers :
          (FailedEarly(h)' /\ ~FailedEarly(h)) => UNCHANGED editorVars]_vars

\* the first call opened its document; the conversion of the second was
\* rejected, and the session of the first is still the live one
C21_Witness ==
  /\ handler[1].pc = "returned" /\ handler[1].op = 1
  /\ handler[2].pc = "rejected" /\ handler[2].err = "conversionFailed"
  /\ handler[2].op = NoOp
  /\ session[1] = "live" /\ windowEditor = 1 /\ opPc[2] = "idle"

\* C22: operations begin in the order in which they were submitted: when an
\* operation begins, every operation submitted before it has begun already.
C22_BeginInOrder ==
  \A k \in 1..Len(begun) : begun[k] = k

(***************************************************************************)
(* Properties of the converter.                                            *)
(***************************************************************************)
Called(r) == req[r].pc # "idle"
InitSettled(r) == req[r].init # "none"
\* the calls of initialize() made before the first bootstrap has settled
DuringFirst == {r \in Reqs : Called(r) /\ (r = 1 \/ 1 \in req[r].joined)}
StartedAttempts == {a \in Attempts : attempt[a].pc # "unused"}

\* C4: while the first bootstrap is unsettled exactly one doInitialize run
\* and one script load have been started; every call made before it settled
\* holds the promise of that bootstrap, and any two of them settle alike:
\* both with the handle or both with the same error.
C4_SingleFlight ==
  /\ AttemptPending(1) => StartedAttempts = {1} /\ scriptLoads = 1
  /\ \A r \in DuringFirst : req[r].att = 1
  /\ \A r, q \in DuringFirst :
       (InitSettled(r) /\ InitSettled(q)) =>
         /\ req[r].init = req[q].init
         /\ req[r].init = "rejected" => req[r].err = req[q].err

\* every call was made during the first bootstrap and got the handle
C4_Witness ==
  /\ DuringFirst = Reqs
  /\ \A r \in Reqs : req[r].init = "handle" /\ req[r].att = 1

InitFailedWith(a, kinds) ==
  attempt[a].pc = "rejected" /\ attempt[a].err.kind \in kinds
\* a call of initialize() was handed the promise of bootstrap a after a failed
HandedFailed(a) == \E r \in Reqs : req[r].stale /\ req[r].att = a

\* C5: once a bootstrap has failed by the initialization timeout, initPromise
\* holds it no longer and no later initialize() call is handed its promise.
C5_TimeoutClearsInitPromise ==
  \A a \in Attempts :
    InitFailedWith(a, {"InitTimeout"}) => initPromise # a /\ ~HandedFailed(a)

\* C6: once a bootstrap has failed by a failed script load or by a missing
\* window.Module, initPromise holds it no longer and no later initialize()
\* call is handed its promise.
C6_FailureResetsInitPromise ==
  \A a \in Attempts :
    InitFailedWith(a, {"ScriptLoadFailed", "ModuleNotFound"}) =>
      initPromise # a /\ ~HandedFailed(a)

\* C8: a convertDocument call on a file of an unknown extension starts no
\* bootstrap (no script load, no working directories), writes no file, never
\* calls the engine, and fails with the unsupported-format error.
C8_UnsupportedBeforeEngine ==
  \A r \in Reqs :
    (Called(r) /\ DOCUMENT_TYPE_MAP(req[r].ext) = "none") =>
      /\ attempt[r].pc = "unused"
      /\ ~req[r].wrote /\ req[r].ccalls = 0
      /\ req[r].pc = "rejected" => req[r].err = Err("UnsupportedFormat", 0)

\* C10: when the engine returned a non-zero status c, the call is rejected
\* with the conversion-failure error carrying c, whether or not the
\* descriptor read-back failed, and neither the output file nor the media
\* directory has been read.
C10_FailureCarriesCode ==
  \A r \in Reqs :
    (req[r].ccalls > 0 /\ req[r].code # 0) =>
      /\ req[r].pc = "rejected"
      /\ req[r].err.kind = "ConversionFailed" /\ req[r].err.code = req[r].code
      /\ Head(req[r].err.wrap) = "Document conversion failed"
      /\ ~req[r].readOut /\ ~req[r].readMedia

\* the engine failed with status MaxCode and the read-back failed as well
C10_Witness ==
  \E r \in Reqs :
    /\ req[r].ccalls = 1 /\ req[r].code = MaxCode /\ req[r].readbackFailed
    /\ req[r].pc = "rejected" /\ req[r].err.code = MaxCode

\* C11: a convertDocument call on a CSV file of zero length is rejected with
\* the empty-file error; the fallback spreadsheet library is neither loaded
\* nor invoked for it, it writes no file and never calls the engine.
C11_EmptyCsvFailsFast ==
  \A r \in Reqs :
    (req[r].ext = "csv" /\ req[r].empty) =>
      /\ req[r].pc = "rejected"
      /\ req[r].err = Wrap("Document conversion failed", Err("CsvEmpty", 0))
      /\ ~req[r].usedXlsx /\ ~req[r].wrote /\ req[r].ccalls = 0

\* an empty CSV file was rejected on an engine that is ready, and the
\* fallback library has never been loaded
C11_Witness ==
  \E r \in Reqs :
    /\ req[r].ext = "csv" /\ req[r].empty /\ req[r].pc = "rejected"
    /\ req[r].init = "handle" /\ isReady /\ ~windowXLSX

\* call r of convertDocument is made while the engine handle is cached
CachedCall(r) == req[r].pc = "idle" /\ req'[r].pc # "idle" /\ isReady /\ x2tModule

\* C17: a call of initialize() made once the engine is ready gets the cached
\* handle and starts nothing: no script load, no bootstrap, no registration
\* of the readiness callback, no creation of directories.  At most one
\* bootstrap succeeds and the working directories are created at most once.
C17_HandleCached ==
  /\ [][\A r \in Reqs :
          CachedCall(r) =>
            /\ req'[r].att = 0
            /\ UNCHANGED <<scriptLoads, hasScriptLoaded, attempt, initPromise,
                           onRuntimeInitialized, mkdirRuns, x2tModule, isReady>>]_vars
  /\ [](/\ mkdirRuns <= 1
        /\ Cardinality({a \in Attempts : attempt[a].pc = "resolved"}) <= 1
        /\ \A r \in Reqs :
             (req[r].att = 0 /\ InitSettled(r)) => req[r].init = "handle")

\* a call made after the bootstrap had succeeded got the cached handle
C17_Witness ==
  \E r \in Reqs :
    /\ req[r].att = 0 /\ req[r].init = "handle"
    /\ attempt[1].pc = "resolved" /\ mkdirRuns = 1 /\ scriptLoads = 1

\* C19: when the CSV fallback fails, in loading the library or in decoding,
\* parsing or serialising, the call is rejected with the CSV error; it has
\* written no file, its descriptor was never written and it never called
\* the engine.
C19_CsvFailureTerminal ==
  \A r \in Reqs :
    req[r].xlsxFailed =>
      /\ req[r].pc = "rejected"
      /\ req[r].err = Wrap("Document conversion failed",
                           Wrap("Failed to convert CSV file",
                                Wrap("Failed to convert CSV to XLSX",
                                     Err("XlsxFailure", 0))))
      /\ ~req[r].wrote /\ req[r].ccalls = 0 /\ paramsXml # r

\* the library failed to load for one call, and loaded but failed to
\* convert for the other
C19_Witness ==
  /\ \A r \in 1..2 : req[r].xlsxFailed /\ req[r].pc = "rejected"
  /\ windowXLSX

\* C20: a call invokes the engine at most once, and once when it succeeds;
\* a call that was rejected does nothing more; and the step that invokes
\* the engine for call r has written the input file and left the
\* descriptor of r in /working/params.xml.
C20_OneInvocation ==
  /\ [](\A r \in Reqs :
         /\ req[r].ccalls <= 1
         /\ req[r].pc \in {"awaitMedia", "resolved"} => req[r].ccalls = 1
         /\ req[r].ccalls > 0 => req[r].wrote)
  /\ [][\A r \in Reqs :
          /\ req[r].pc = "rejected" => req'[r] = req[r]
          /\ req'[r].ccalls > req[r].ccalls =>
               /\ ~req[r].wrote /\ req'[r].wrote
               /\ paramsXml' = r]_vars

\* the first call failed in the engine and was not retried; the second
\* overwrote its descriptor and succeeded
C20_Witness ==
  /\ req[1].pc = "rejected" /\ req[1].ccalls = 1 /\ req[1].code # 0
  /\ req[2].pc = "resolved" /\ req[2].ccalls = 1 /\ paramsXml = 2

\* C24: no state lies between the steps of one conversion: a call has
\* written its input file and its descriptor exactly if it has invoked the
\* engine, the engine then read the descriptor of that same call, and the
\* call has read the output exactly if it has listed and read the media
\* directory, which it has done exactly if its invocation returned 0 and the
\* output was there; so no other call runs between any two of these.
C24_NoSuspension ==
  \A r \in Reqs :
    /\ req[r].wrote <=> req[r].ccalls > 0
    /\ req[r].ccalls > 0 => req[r].ranWith = r
    /\ req[r].readOut <=> req[r].readMedia
    /\ req[r].readOut => req[r].ccalls = 1 /\ req[r].code = 0
    /\ req[r].readOut <=> req[r].pc \in {"awaitMedia", "resolved"}

\* two calls are in flight at once, both have run the engine and read their
\* output, the second before the first
C24_Witness ==
  /\ req[1].pc = "awaitMedia" /\ req[2].pc = "awaitMedia"
  /\ req[1].ranWith = 1 /\ req[2].ranWith = 2 /\ paramsXml = 1

\* a step of destroy(): the only operation of the converter that leaves
\* every call, every bootstrap and the engine's signal count as they were
DestroyStep == UNCHANGED <<req, attempt, runtimeSignals>>
\* call r of initialize() is made in this step
InitializeStep(r) == req[r].pc = "idle" /\ req'[r].pc = "awaitInit"
\* what destroy() resets has its reset value
Destroyed == ~x2tModule /\ ~isReady /\ initPromise = 0

C23_InitializeSettles ==
  \A r \in Reqs : (req[r].pc = "awaitInit") ~> (req[r].pc # "awaitInit")

(***************************************************************************)
(* Properties of sanitizeFileName.                                         *)
(***************************************************************************)
\* C9: sanitizeFileName is idempotent: applied to its own result it returns
\* that result.
C9_SanitizeIdempotent == sanPc = "twice" => sanTwice = sanOnce

Converted == sanPc = "named" /\ names.type # "none"
hasExtension(fileName) == lastDot(fileName) # 0 /\ popped(fileName) # <<>>

\* the entries of /working/media other than '.' and '..'
MediaEntries == IF mediaDir.listable THEN mediaDir.files ELSE {}
UrlFailed == {file \in MediaFiles : mediaPromises[file] = "null"} \ unreadable

\* C13: readMediaFiles always returns a mapping.  Its keys are media/<file>
\* for exactly the entries of /working/media that could be read and given a
\* URL: an entry whose read throws is left out and takes no other entry
\* with it.  For a directory that is missing, cannot be listed or is empty
\* the mapping is empty, and '.' and '..' are never among the keys.
C13_MediaNeverFails ==
  /\ mediaPc \in {"idle", "awaitAll", "returned"}
  /\ mediaPc = "returned" =>
       /\ media = {mediaKey(file) : file \in (MediaEntries \ unreadable) \ UrlFailed}
       /\ (~mediaDir.listable \/ mediaDir.files = {}) => media = {}
       /\ \A entry \in PseudoEntries : mediaKey(entry) \notin media

\* one file of a directory of three could not be read; the other two are
\* in the mapping
C13_Witness ==
  /\ mediaPc = "returned"
  /\ mediaDir = Directory(MediaFiles)
  /\ unreadable = {"image2.png"}
  /\ media = {mediaKey("image1.png"), mediaKey("image3.png")}

\* C25: the media mapping returned for a request has only keys of files the
\* engine wrote while converting that request; no file that an earlier
\* conversion left in /working/media is among them.
C25_ResultOwnMedia ==
  mediaPc = "returned" => media \subseteq {mediaKey(file) : file \in produced}

\* C26: the commands sent by the application-ready callback of a session go
\* to that session, each of them: none goes to another session and none is
\* dropped.
C26_CommandsReachOwnSession ==
  appReady # NoEvent =>
    /\ \A k \in 1..Len(commands) : commands[k].to = appReady.session
    /\ Len(commands) = IF appReady.mediaUrls THEN 2 ELSE 1

\* C12: the fileName of a successful conversion is the sanitized name of the
\* upload and ends with the extension of the upload, and the type is the
\* document type of the detected extension; for a file detected as CSV the
\* type is cell, and the fileName of an upload named *.csv ends with .csv,
\* not with the .xlsx of the intermediate file.
C12_ResultNamesUpload ==
  Converted =>
    /\ names.fileName = sanitizeFileName(sanInput)
    /\ hasExtension(sanInput) => popped(names.fileName) = popped(sanInput)
    /\ names.type = DOCUMENT_TYPE_MAP(Str(toLowerCase(names.fileExt)))
    /\ isCsv(names.fileExt) =>
         /\ names.type = "cell"
         /\ endsWith(toLowerCase(sanInput), DotCsv) =>
              /\ endsWith(toLowerCase(names.fileName), DotCsv)
              /\ ~endsWith(names.fileName, DotXlsx)

\* data.csv was converted through the intermediate /working/data.xlsx
C12_Witness ==
  /\ Converted
  /\ sanInput = <<"d", "a", "t", "a", ".", "c", "s", "v">>
  /\ names.inputPath = WorkingDir \o <<"d", "a", "t", "a">> \o DotXlsx
  /\ names.fileName = sanInput /\ names.type = "cell"

StrippedChars == IllegalChars \cup ControlChars \cup UnsafeChars

\* C18: the input path of an accepted file has no character after its
\* '/working/' prefix that sanitizeFileName strips: no path separator, no
\* other illegal character, no control byte, no unsafe punctuation; so it
\* names a file directly inside /working.
C18_PathHasNoStrippedChar ==
  Converted =>
    \A i \in (Len(WorkingDir) + 1)..Len(names.inputPath) :
      names.inputPath[i] \notin StrippedChars

====
